---------------------------- MODULE Spec2Model ----------------------------
(***************************************************************************)
(* A model of src/app/api/hero-images/upload/route.ts: the hero-image      *)
(* upload handler (POST) and the QR-code manager component                 *)
(* (QRCodeManager), together with the hosted storage bucket and tables     *)
(* they call.  Every `await` of the source splits a handler into steps:    *)
(* the synchronous part up to the call, the service's own step, and the    *)
(* continuation that runs when the call returns.                           *)
(*                                                                         *)
(* Strings are sequences of one-character strings, so that split, trim,    *)
(* startsWith and toLowerCase are computed as the source computes them.    *)
(***************************************************************************)
EXTENDS Integers, Sequences, FiniteSets, Bags, TLC

\* ------------------------------------------------------------ bounds
\* Requests the hero-image handler receives in one run.
MaxReq == 2
\* Rows ever inserted into qr_codes in one run (server-assigned ids 1..MaxRows).
MaxRows == 4
\* User events in one run of the QR-code manager.
MaxEvents == 3
\* User events in one run of the upload form over an empty table.
MaxFormEvents == 6
\* Calls of the QR-code manager in flight at once.
MaxTasks == 2

\* ------------------------------------------------------------ strings
UpperCase == <<"A","B","C","D","E","F","G","H","I","J","K","L","M",
               "N","O","P","Q","R","S","T","U","V","W","X","Y","Z">>
LowerCase == <<"a","b","c","d","e","f","g","h","i","j","k","l","m",
               "n","o","p","q","r","s","t","u","v","w","x","y","z">>

Max(S) == CHOOSE m \in S : \A k \in S : k <= m

\* String.prototype.toLowerCase
ToLowerChar(c) ==
  IF \E k \in 1..Len(UpperCase) : UpperCase[k] = c
  THEN LowerCase[CHOOSE k \in 1..Len(UpperCase) : UpperCase[k] = c]
  ELSE c
ToLowerCase(s) == [k \in 1..Len(s) |-> ToLowerChar(s[k])]

\* name.split('.').pop(): the text after the last dot, the whole name if
\* it has no dot.
SplitPop(s) ==
  LET dots == {k \in 1..Len(s) : s[k] = "."}
  IN  IF dots = {} THEN s ELSE SubSeq(s, Max(dots) + 1, Len(s))

\* String.prototype.startsWith
StartsWith(s, p) == Len(s) >= Len(p) /\ SubSeq(s, 1, Len(p)) = p

WhiteSpace == {" ", "\t"}
\* String.prototype.trim
Trim(s) ==
  LET keep == {k \in 1..Len(s) : s[k] \notin WhiteSpace}
  IN  IF keep = {} THEN <<>>
      ELSE SubSeq(s, CHOOSE a \in keep : \A k \in keep : a <= k, Max(keep))

\* ------------------------------------------------------------ files
\* A File: its name, its size in bytes and its declared media type.
PngFile   == [name |-> <<"q","r",".","p","n","g">>, size |-> 2 * 1024 * 1024,
              type |-> <<"i","m","a","g","e","/","p","n","g">>]
UpperFile == [name |-> <<"a",".","b",".","J","P","G">>, size |-> 5 * 1024 * 1024,
              type |-> <<"i","m","a","g","e","/","j","p","e","g">>]
BigFile   == [name |-> <<"b",".","p","n","g">>, size |-> 5 * 1024 * 1024 + 1,
              type |-> <<"i","m","a","g","e","/","p","n","g">>]
TextFile  == [name |-> <<"n","o","t","e">>, size |-> 10,
              type |-> <<"t","e","x","t","/","p","l","a","i","n">>]
BareFile  == [name |-> <<"i",".","P","n","g">>, size |-> 10,
              type |-> <<"i","m","a","g","e">>]
\* null / an absent form field
NoFile    == [name |-> <<>>, size |-> -1, type |-> <<>>]

\* The files posted to the hero-image handler.
HeroFiles == {PngFile, UpperFile, TextFile}
\* The files offered to the QR-code form.
QrFiles == {UpperFile, BigFile, TextFile, BareFile}
\* The values Date.now() is drawn from.
Times == {1, 2}
\* What a call to the hosted service can do: succeed, return {error}, or
\* reject (the awaited promise throws).
Outcomes == {"ok", "error", "throw"}

VARIABLES
  \* hero-image handler
  heroBucket,    \* keys stored in the 'hero-images' bucket
  hero_images,   \* rows of the hero_images table
  requests,      \* the requests received, each with its position and response
  \* QR-code manager
  qrBucket,      \* keys stored in the 'qr-codes' bucket
  qr_codes,      \* rows of the qr_codes table
  nextId,        \* the id the table gives the next inserted row
  qrCodes,       \* useState: the locally held list
  loading,       \* useState
  uploading,     \* useState
  selectedFile,  \* useState
  qrCodeName,    \* useState
  error,         \* useState
  success,       \* useState
  tasks,         \* the async handler calls in flight
  events         \* user events left in this run

heroVars == <<heroBucket, hero_images, requests>>
uiVars   == <<qrCodes, loading, uploading, selectedFile, qrCodeName, error, success>>
qrVars   == <<qrBucket, qr_codes, nextId, qrCodes, loading, uploading,
              selectedFile, qrCodeName, error, success, tasks, events>>
vars     == <<heroBucket, hero_images, requests, qrBucket, qr_codes, nextId,
              qrCodes, loading, uploading, selectedFile, qrCodeName, error,
              success, tasks, events>>


\* ===================================================== hero-image handler
\* getPublicUrl(fileName) of a bucket
PublicUrl(bucket, key) == [bucket |-> bucket, key |-> key]

\* The extension taken as it is written.
HeroFileName_NoLower(file, t) ==
  <<"hero-", ToString(t), ".">> \o SplitPop(file.name)

\* `hero-${Date.now()}.${fileExt}` with fileExt the lower-cased last dot-segment
HeroFileName(file, t) ==
  <<"hero-", ToString(t), ".">> \o ToLowerCase(SplitPop(file.name))

\* The check of the file left out.
FileMissing_Never(file) == FALSE

\* if (!file)
FileMissing(file) == file = NoFile

\* A returned {error} not read.
ReturnedError_Never(res) == FALSE

\* if (uploadError) / if (dbError)
ReturnedError(res) == res = "error"

\* NextResponse.json({ error }, { status })
ErrorResponse(r, status, message) ==
  [r EXCEPT !.pc = "done", !.status = status, !.error = message]

\* A request as the handler first sees it.  `calls` lists the calls of the
\* service the handler made for it; a row's `by` is the request it was
\* inserted for.
NewRequest(rid, file, readable) ==
  [rid |-> rid, file |-> file, readable |-> readable, pc |-> "start",
   fileName |-> <<>>,
   calls |-> <<>>, upRes |-> "none", dbRes |-> "none",
   status |-> 0, error |-> "", image |-> 0]

Replace(set, old, new) == (set \ {old}) \cup {new}

\* The stored object removed again when the insert was rejected.
BucketAfterInsertFailure_Removed(bucket, key) == bucket \ {key}

\* What the handler leaves in the bucket when the insert was rejected.
BucketAfterInsertFailure(bucket, key) == bucket

\* POST, lines 5-32: read the form, check the file, name the object and call
\* storage.upload.  `readable` is whether request.formData() resolves.
POST(file, readable, t) ==
  /\ Cardinality(requests) < MaxReq
  /\ LET r == NewRequest(Cardinality(requests) + 1, file, readable)
     IN  requests' = requests \cup
           { IF ~readable
               THEN ErrorResponse(r, 500, "Internal server error")
             ELSE IF FileMissing(file)
               THEN ErrorResponse(r, 400, "No file provided")
             ELSE [r EXCEPT !.pc = "upload_call",
                            !.fileName = HeroFileName(file, t),
                            !.calls = <<"storage.upload">>] }
  /\ UNCHANGED <<heroBucket, hero_images>>
  /\ UNCHANGED qrVars

\* storage.from('hero-images').upload(fileName, buffer, ...) at the service
HeroStorageUpload(r, out) ==
  /\ r \in requests /\ r.pc = "upload_call"
  /\ heroBucket' = IF out = "ok" THEN heroBucket \cup {r.fileName} ELSE heroBucket
  /\ requests' = Replace(requests, r, [r EXCEPT !.pc = "upload_ret", !.upRes = out])
  /\ UNCHANGED hero_images
  /\ UNCHANGED qrVars

\* POST, lines 34-58: the upload returned
PostAfterUpload(r) ==
  /\ r \in requests /\ r.pc = "upload_ret"
  /\ requests' = Replace(requests, r,
       IF r.upRes = "throw"
         THEN ErrorResponse(r, 500, "Internal server error")
       ELSE IF ReturnedError(r.upRes)
         THEN ErrorResponse(r, 500, "Failed to upload file")
       ELSE [r EXCEPT !.pc = "insert_call", !.calls = Append(@, "db.insert")])
  /\ UNCHANGED <<heroBucket, hero_images>>
  /\ UNCHANGED qrVars

\* from('hero_images').insert([...]).select().single() at the service
HeroInsert(r, out) ==
  /\ r \in requests /\ r.pc = "insert_call"
  /\ LET id == Cardinality(hero_images) + 1
     IN  /\ hero_images' =
              IF out = "ok"
              THEN hero_images \cup
                     {[id |-> id, file_name |-> r.fileName,
                       file_url |-> PublicUrl("hero-images", r.fileName),
                       is_active |-> TRUE, by |-> r.rid]}
              ELSE hero_images
         /\ requests' = Replace(requests, r,
              [r EXCEPT !.pc = "insert_ret", !.dbRes = out,
                        !.image = IF out = "ok" THEN id ELSE 0])
  /\ UNCHANGED heroBucket
  /\ UNCHANGED qrVars

\* POST, lines 60-77: the insert returned
PostAfterInsert(r) ==
  /\ r \in requests /\ r.pc = "insert_ret"
  /\ requests' = Replace(requests, r,
       IF r.dbRes = "throw"
         THEN ErrorResponse(r, 500, "Internal server error")
       ELSE IF ReturnedError(r.dbRes)
         THEN ErrorResponse(r, 500, "Failed to save metadata")
       ELSE [r EXCEPT !.pc = "done", !.status = 200])
  /\ heroBucket' = IF r.dbRes = "ok" THEN heroBucket
                   ELSE BucketAfterInsertFailure(heroBucket, r.fileName)
  /\ UNCHANGED hero_images
  /\ UNCHANGED qrVars

HeroInit ==
  /\ heroBucket = {}
  /\ hero_images = {}
  /\ requests = {}

HeroNext ==
  \/ \E file \in HeroFiles \cup {NoFile}, t \in Times : POST(file, TRUE, t)
  \/ POST(NoFile, FALSE, 1)
  \/ \E r \in requests, out \in Outcomes : HeroStorageUpload(r, out)
  \/ \E r \in requests : PostAfterUpload(r)
  \/ \E r \in requests, out \in Outcomes : HeroInsert(r, out)
  \/ \E r \in requests : PostAfterInsert(r)

\* ======================================================= QR-code manager
\* The component instances (browser tabs) that share the table.
Tabs == {"tab1", "tab2"}

\* What the user can type into the name field.
NameInputs == {<<>>, <<" ", "\t">>, <<" ", "Q", "R", " ">>}

\* The rows the table may hold before the first instance is mounted.
SeedRow(id, active) ==
  [id |-> id, name |-> <<"s", ToString(id)>>,
   image_url |-> PublicUrl("qr-codes", <<"0", ".", ToString(id)>>),
   is_active |-> active]
SeedTable == {SeedRow(1, TRUE), SeedRow(2, FALSE), SeedRow(3, FALSE)}

Ids(rows) == {r.id : r \in rows}
Active(rows) == {r \in rows : r.is_active}

\* .order('created_at', { ascending: false }): the table gives ids in the
\* order of creation.
RECURSIVE SortDesc(_)
SortDesc(rows) ==
  IF rows = {} THEN <<>>
  ELSE LET m == CHOOSE r \in rows : \A q \in rows : q.id <= r.id
       IN  <<m>> \o SortDesc(rows \ {m})

Range(seq) == {seq[k] : k \in 1..Len(seq)}

Set(f, i, v) == [f EXCEPT ![i] = v]
AddTask(b, t) == b (+) SetToBag({t})
DelTask(b, t) == b (-) SetToBag({t})
InFlight == BagToSet(tasks)

\* An async call of a handler: the instance, the handler, its position, and
\* what the call closed over (id, file, name, key, first) or was given back
\* (res, data).  `by` is the handler whose success issued a list fetch.
Task(i, op, pc) ==
  [tab |-> i, op |-> op, pc |-> pc, id |-> 0, file |-> NoFile, name |-> <<>>,
   key |-> <<>>, first |-> FALSE, res1 |-> "none", res |-> "none", data |-> <<>>,
   by |-> "user"]

LoadTask(i, by, id) == [Task(i, "load", "select_call") EXCEPT !.by = by, !.id = id]

\* `${Date.now()}.${fileExt}` with fileExt the last dot-segment
QrFileName(file, t) == <<ToString(t), ".">> \o SplitPop(file.name)

\* 5 * 1024 * 1024, the 5MB limit
MaxFileSize == 5 * 1024 * 1024
ImagePrefix == <<"i","m","a","g","e","/">>

\* handleFileSelect's two checks
TooLarge(file) == file.size > MaxFileSize
NotImage(file) == ~StartsWith(file.type, ImagePrefix)

\* The name checked without trimming it.
UploadRefused_NoTrim(file, name) == file = NoFile \/ name = <<>>

\* if (!selectedFile || !qrCodeName.trim())
UploadRefused(file, name) == file = NoFile \/ Trim(name) = <<>>

\* is_active: qrCodes.length === 0
FirstQrCode(list) == Len(list) = 0

\* disabled={uploading || !selectedFile || !qrCodeName.trim()}
UploadDisabled(i) ==
  uploading[i] \/ selectedFile[i] = NoFile \/ Trim(qrCodeName[i]) = <<>>

\* The list is rendered, with a row's buttons, when loading is false.
RowShown(i, id) == ~loading[i] /\ id \in Ids(Range(qrCodes[i]))
\* {!qrCode.is_active && <button onClick={() => toggleActive(qrCode.id)}>}
ToggleShown(i, id) ==
  ~loading[i] /\ \E r \in Range(qrCodes[i]) : r.id = id /\ ~r.is_active

\* A user event is counted, and a handler that calls the service needs a
\* free slot.
UserEvent == events > 0 /\ events' = events - 1
FreeSlot == BagCardinality(tasks) < MaxTasks

\* ---------------------------------------------------------------- list
\* loadQRCodes, lines 119-125, called by the refresh button
LoadQRCodes(i) ==
  /\ UserEvent /\ FreeSlot
  /\ loading' = Set(loading, i, TRUE)
  /\ tasks' = AddTask(tasks, LoadTask(i, "user", 0))
  /\ UNCHANGED <<qrBucket, qr_codes, nextId, qrCodes, uploading, selectedFile,
                 qrCodeName, error, success>>
  /\ UNCHANGED heroVars

\* from('qr_codes').select('*').order(...) at the service
QrSelect(t, out) ==
  /\ t \in InFlight /\ t.op = "load" /\ t.pc = "select_call"
  /\ tasks' = AddTask(DelTask(tasks, t),
       [t EXCEPT !.pc = "select_ret", !.res = out,
                 !.data = IF out = "ok" THEN SortDesc(qr_codes) ELSE <<>>])
  /\ UNCHANGED <<qrBucket, qr_codes, nextId, uiVars, events>>
  /\ UNCHANGED heroVars

\* setQrCodes(data || []) run for a fetch that failed too.
ListAfterFailedLoad_Cleared(list) == <<>>

\* What a fetch that failed leaves in the list.
ListAfterFailedLoad(list) == list

\* setLoading(false) run after setQrCodes instead of in the finally block.
LoadingAfterFetch_OnSuccessOnly(res) == res # "ok"

\* finally { setLoading(false) }: on every exit
LoadingAfterFetch(res) == FALSE

\* loadQRCodes, lines 127-139: the select returned
LoadAfterSelect(t) ==
  /\ t \in InFlight /\ t.op = "load" /\ t.pc = "select_ret"
  /\ tasks' = DelTask(tasks, t)
  /\ IF t.res = "ok"
       THEN /\ qrCodes' = Set(qrCodes, t.tab, t.data)
            /\ UNCHANGED error
       ELSE /\ qrCodes' = Set(qrCodes, t.tab, ListAfterFailedLoad(qrCodes[t.tab]))
            /\ error' = Set(error, t.tab, "Failed to load QR codes")
  /\ loading' = Set(loading, t.tab, LoadingAfterFetch(t.res))
  /\ UNCHANGED <<qrBucket, qr_codes, nextId, uploading, selectedFile,
                 qrCodeName, success, events>>
  /\ UNCHANGED heroVars

\* ----------------------------------------------------------- the form
\* handleFileSelect, lines 142-156; NoFile is a change event with no file
HandleFileSelect(i, file) ==
  /\ UserEvent
  /\ IF file = NoFile
       THEN UNCHANGED <<selectedFile, error>>
     ELSE IF TooLarge(file)
       THEN /\ error' = Set(error, i, "File size must be less than 5MB")
            /\ UNCHANGED selectedFile
     ELSE IF NotImage(file)
       THEN /\ error' = Set(error, i, "Please select an image file")
            /\ UNCHANGED selectedFile
     ELSE /\ selectedFile' = Set(selectedFile, i, file)
          /\ error' = Set(error, i, "")
  /\ UNCHANGED <<qrBucket, qr_codes, nextId, qrCodes, loading, uploading,
                 qrCodeName, success, tasks>>
  /\ UNCHANGED heroVars

\* onChange={(e) => setQrCodeName(e.target.value)}, line 289
SetQrCodeName(i, name) ==
  /\ UserEvent
  /\ name # qrCodeName[i]
  /\ qrCodeName' = Set(qrCodeName, i, name)
  /\ UNCHANGED <<qrBucket, qr_codes, nextId, qrCodes, loading, uploading,
                 selectedFile, error, success, tasks>>
  /\ UNCHANGED heroVars

\* -------------------------------------------------------------- upload
\* Inserts still to come from uploads in flight.
PendingInserts ==
  BagCardinality([t \in {u \in InFlight : u.op = "upload"} |-> tasks[t]])

\* uploadQRCode, lines 158-173: the check, then the call of storage.upload.
\* The handler closes over the state of the render it was created in.
UploadQRCode(i, t) ==
  /\ UserEvent
  /\ IF UploadRefused(selectedFile[i], qrCodeName[i])
       THEN /\ error' = Set(error, i, "Please select a file and enter a name")
            /\ UNCHANGED <<uploading, tasks>>
       ELSE /\ FreeSlot
            /\ nextId + PendingInserts <= MaxRows
            /\ uploading' = Set(uploading, i, TRUE)
            /\ error' = Set(error, i, "")
            /\ tasks' = AddTask(tasks,
                 [Task(i, "upload", "storage_call") EXCEPT
                    !.file = selectedFile[i],
                    !.name = qrCodeName[i],
                    !.first = FirstQrCode(qrCodes[i]),
                    !.key = QrFileName(selectedFile[i], t)])
  /\ UNCHANGED <<qrBucket, qr_codes, nextId, qrCodes, loading, selectedFile,
                 qrCodeName, success>>
  /\ UNCHANGED heroVars

\* The upload button, line 331
ClickUpload(i, t) == ~UploadDisabled(i) /\ UploadQRCode(i, t)

\* storage.from('qr-codes').upload(fileName, selectedFile) at the service
QrStorageUpload(t, out) ==
  /\ t \in InFlight /\ t.op = "upload" /\ t.pc = "storage_call"
  /\ qrBucket' = IF out = "ok" THEN qrBucket \cup {t.key} ELSE qrBucket
  /\ tasks' = AddTask(DelTask(tasks, t), [t EXCEPT !.pc = "storage_ret", !.res = out])
  /\ UNCHANGED <<qr_codes, nextId, uiVars, events>>
  /\ UNCHANGED heroVars

\* The stored object removed again when a step of uploadQRCode failed.
BucketAfterUploadFailure_Removed(bucket, key) == bucket \ {key}

\* What uploadQRCode leaves in the bucket when a step of it failed.
BucketAfterUploadFailure(bucket, key) == bucket

\* uploadQRCode, lines 175-193 (and 205-210): the upload returned
UploadAfterStorage(t) ==
  /\ t \in InFlight /\ t.op = "upload" /\ t.pc = "storage_ret"
  /\ IF t.res = "ok"
       THEN /\ tasks' = AddTask(DelTask(tasks, t),
                          [t EXCEPT !.pc = "insert_call", !.res = "none"])
            /\ UNCHANGED <<error, uploading, qrBucket>>
       ELSE /\ tasks' = DelTask(tasks, t)
            /\ error' = Set(error, t.tab,
                 IF ReturnedError(t.res) THEN "Failed to upload image"
                                         ELSE "Failed to upload QR code")
            /\ uploading' = Set(uploading, t.tab, FALSE)
            /\ qrBucket' = BucketAfterUploadFailure(qrBucket, t.key)
  /\ UNCHANGED <<qr_codes, nextId, qrCodes, loading, selectedFile, qrCodeName,
                 success, events>>
  /\ UNCHANGED heroVars

\* The row's URL built from a name generated anew.
NewQrRow_FreshName(id, t) ==
  [id |-> id, name |-> Trim(t.name),
   image_url |-> PublicUrl("qr-codes", QrFileName(t.file, 0)), is_active |-> t.first]

\* The row uploadQRCode inserts.
NewQrRow(id, t) ==
  [id |-> id, name |-> Trim(t.name),
   image_url |-> PublicUrl("qr-codes", t.key), is_active |-> t.first]

\* from('qr_codes').insert({...}) at the service
QrInsert(t, out) ==
  /\ t \in InFlight /\ t.op = "upload" /\ t.pc = "insert_call"
  /\ IF out = "ok"
       THEN /\ qr_codes' = qr_codes \cup {NewQrRow(nextId, t)}
            /\ nextId' = nextId + 1
       ELSE UNCHANGED <<qr_codes, nextId>>
  /\ tasks' = AddTask(DelTask(tasks, t),
       [t EXCEPT !.pc = "insert_ret", !.res = out,
                 !.id = IF out = "ok" THEN nextId ELSE 0])
  /\ UNCHANGED <<qrBucket, uiVars, events>>
  /\ UNCHANGED heroVars

\* uploadQRCode, lines 195-210: the insert returned
UploadAfterInsert(t) ==
  /\ t \in InFlight /\ t.op = "upload" /\ t.pc = "insert_ret"
  /\ IF t.res = "ok"
       THEN /\ success' = Set(success, t.tab, "QR code uploaded successfully!")
            /\ selectedFile' = Set(selectedFile, t.tab, NoFile)
            /\ qrCodeName' = Set(qrCodeName, t.tab, <<>>)
            /\ loading' = Set(loading, t.tab, TRUE)
            /\ tasks' = AddTask(DelTask(tasks, t), LoadTask(t.tab, "upload", t.id))
            /\ UNCHANGED <<error, qrBucket>>
       ELSE /\ tasks' = DelTask(tasks, t)
            /\ error' = Set(error, t.tab,
                 IF ReturnedError(t.res) THEN "Failed to save QR code"
                                         ELSE "Failed to upload QR code")
            /\ qrBucket' = BucketAfterUploadFailure(qrBucket, t.key)
            /\ UNCHANGED <<success, selectedFile, qrCodeName, loading>>
  /\ uploading' = Set(uploading, t.tab, FALSE)
  /\ UNCHANGED <<qr_codes, nextId, qrCodes, events>>
  /\ UNCHANGED heroVars

\* -------------------------------------------------------------- delete
\* The answer to the prompt not read.
Declined_Never(confirmed) == FALSE

\* if (!confirm('Are you sure you want to delete this QR code?')) return
Declined(confirmed) == ~confirmed

\* deleteQRCode, lines 213-220: the prompt, then the call of delete
DeleteQRCode(i, id, confirmed) ==
  /\ UserEvent
  /\ IF ~Declined(confirmed)
       THEN /\ FreeSlot
            /\ tasks' = AddTask(tasks, [Task(i, "delete", "delete_call") EXCEPT !.id = id])
       ELSE UNCHANGED tasks
  /\ UNCHANGED <<qrBucket, qr_codes, nextId, uiVars>>
  /\ UNCHANGED heroVars

\* The delete button of a listed row, line 455
ClickDelete(i, id, confirmed) == RowShown(i, id) /\ DeleteQRCode(i, id, confirmed)

\* The delete sent without its .eq('id', id) filter.
RowsAfterDelete_NoFilter(rows, id) == {}

\* .delete().eq('id', id): the rows the table keeps
RowsAfterDelete(rows, id) == {r \in rows : r.id # id}

\* from('qr_codes').delete().eq('id', id) at the service
QrDelete(t, out) ==
  /\ t \in InFlight /\ t.op = "delete" /\ t.pc = "delete_call"
  /\ qr_codes' = IF out = "ok" THEN RowsAfterDelete(qr_codes, t.id) ELSE qr_codes
  /\ tasks' = AddTask(DelTask(tasks, t), [t EXCEPT !.pc = "delete_ret", !.res = out])
  /\ UNCHANGED <<qrBucket, nextId, uiVars, events>>
  /\ UNCHANGED heroVars

\* deleteQRCode, lines 222-233: the delete returned
DeleteAfterDelete(t) ==
  /\ t \in InFlight /\ t.op = "delete" /\ t.pc = "delete_ret"
  /\ IF t.res = "ok"
       THEN /\ success' = Set(success, t.tab, "QR code deleted successfully!")
            /\ loading' = Set(loading, t.tab, TRUE)
            /\ tasks' = AddTask(DelTask(tasks, t), LoadTask(t.tab, "delete", t.id))
            /\ UNCHANGED error
       ELSE /\ tasks' = DelTask(tasks, t)
            /\ error' = Set(error, t.tab, "Failed to delete QR code")
            /\ UNCHANGED <<success, loading>>
  /\ UNCHANGED <<qrBucket, qr_codes, nextId, qrCodes, uploading, selectedFile,
                 qrCodeName, events>>
  /\ UNCHANGED heroVars

\* -------------------------------------------------------------- toggle
\* toggleActive, lines 236-241: the call that deactivates every row
ToggleActive(i, id) ==
  /\ UserEvent /\ FreeSlot
  /\ tasks' = AddTask(tasks, [Task(i, "toggle", "clear_call") EXCEPT !.id = id])
  /\ UNCHANGED <<qrBucket, qr_codes, nextId, uiVars>>
  /\ UNCHANGED heroVars

\* The set-as-active button of a listed inactive row, line 434
ClickToggle(i, id) == ToggleShown(i, id) /\ ToggleActive(i, id)

\* .update({ is_active: false }) with no filter: every row
RowsAfterClear(rows) == {[r EXCEPT !.is_active = FALSE] : r \in rows}
\* One write that activates the target and deactivates the others.
RowsAfterSet_Exclusive(rows, id) == {[r EXCEPT !.is_active = (r.id = id)] : r \in rows}
\* The filter matching no row.
RowsAfterSet_NoMatch(rows, id) == rows

\* .update({ is_active: true }).eq('id', id)
RowsAfterSet(rows, id) ==
  {IF r.id = id THEN [r EXCEPT !.is_active = TRUE] ELSE r : r \in rows}

\* from('qr_codes').update({ is_active: false }) at the service
QrClearAll(t, out) ==
  /\ t \in InFlight /\ t.op = "toggle" /\ t.pc = "clear_call"
  /\ qr_codes' = IF out = "ok" THEN RowsAfterClear(qr_codes) ELSE qr_codes
  /\ tasks' = AddTask(DelTask(tasks, t), [t EXCEPT !.pc = "clear_ret", !.res = out])
  /\ UNCHANGED <<qrBucket, nextId, uiVars, events>>
  /\ UNCHANGED heroVars

\* The first update's {error} read as the second's is.
ClearFailed_ErrorRead(res) == res # "ok"

\* await supabase...update({ is_active: false }): the result is dropped, so
\* only a rejected promise (the catch) stops the handler.
ClearFailed(res) == res = "throw"

\* toggleActive, lines 243-247 (and 257-260): the first update returned; its
\* {error} is not read
ToggleAfterClear(t) ==
  /\ t \in InFlight /\ t.op = "toggle" /\ t.pc = "clear_ret"
  /\ IF ClearFailed(t.res)
       THEN /\ tasks' = DelTask(tasks, t)
            /\ error' = Set(error, t.tab, "Failed to update QR code status")
       ELSE /\ tasks' = AddTask(DelTask(tasks, t),
                          [t EXCEPT !.pc = "set_call", !.res1 = t.res,
                                    !.res = "none"])
            /\ UNCHANGED error
  /\ UNCHANGED <<qrBucket, qr_codes, nextId, qrCodes, loading, uploading,
                 selectedFile, qrCodeName, success, events>>
  /\ UNCHANGED heroVars

\* from('qr_codes').update({ is_active: true }).eq('id', id) at the service
QrSetActive(t, out) ==
  /\ t \in InFlight /\ t.op = "toggle" /\ t.pc = "set_call"
  /\ qr_codes' = IF out = "ok" THEN RowsAfterSet(qr_codes, t.id) ELSE qr_codes
  /\ tasks' = AddTask(DelTask(tasks, t), [t EXCEPT !.pc = "set_ret", !.res = out])
  /\ UNCHANGED <<qrBucket, nextId, uiVars, events>>
  /\ UNCHANGED heroVars

\* The second update's {error} dropped as the first's is.
SetFailed_ErrorUnread(res) == res = "throw"

\* if (error) after the second update, or the catch
SetFailed(res) == res # "ok"

\* toggleActive, lines 249-260: the second update returned
ToggleAfterSet(t) ==
  /\ t \in InFlight /\ t.op = "toggle" /\ t.pc = "set_ret"
  /\ IF ~SetFailed(t.res)
       THEN /\ success' = Set(success, t.tab, "QR code status updated!")
            /\ loading' = Set(loading, t.tab, TRUE)
            /\ tasks' = AddTask(DelTask(tasks, t), LoadTask(t.tab, "toggle", t.id))
            /\ UNCHANGED error
       ELSE /\ tasks' = DelTask(tasks, t)
            /\ error' = Set(error, t.tab, "Failed to update QR code status")
            /\ UNCHANGED <<success, loading>>
  /\ UNCHANGED <<qrBucket, qr_codes, nextId, qrCodes, uploading, selectedFile,
                 qrCodeName, events>>
  /\ UNCHANGED heroVars

\* ------------------------------------------------------- specifications
\* The component as mounted: useState's initial values, and the list fetch
\* of the mount effect (lines 115-117) already called.  The rows the table
\* holds by then were uploaded earlier, so their objects are in the bucket.
QrInitWith(tables, tabs, n) ==
  /\ qr_codes \in tables
  /\ qrBucket = {r.image_url.key : r \in qr_codes}
  /\ nextId = Cardinality(qr_codes) + 1
  /\ qrCodes = [i \in Tabs |-> <<>>]
  /\ loading = [i \in Tabs |-> i \in tabs]
  /\ uploading = [i \in Tabs |-> FALSE]
  /\ selectedFile = [i \in Tabs |-> NoFile]
  /\ qrCodeName = [i \in Tabs |-> <<>>]
  /\ error = [i \in Tabs |-> ""]
  /\ success = [i \in Tabs |-> ""]
  /\ tasks = [t \in {LoadTask(i, "mount", 0) : i \in tabs} |-> 1]
  /\ events = n

\* The service's step and the continuation of each call in flight.
ListSteps ==
  \/ \E t \in InFlight, out \in Outcomes : QrSelect(t, out)
  \/ \E t \in InFlight : LoadAfterSelect(t)

UploadSteps ==
  \/ \E t \in InFlight, out \in Outcomes : QrStorageUpload(t, out)
  \/ \E t \in InFlight : UploadAfterStorage(t)
  \/ \E t \in InFlight, out \in Outcomes : QrInsert(t, out)
  \/ \E t \in InFlight : UploadAfterInsert(t)

DeleteSteps ==
  \/ \E t \in InFlight, out \in Outcomes : QrDelete(t, out)
  \/ \E t \in InFlight : DeleteAfterDelete(t)

ToggleSteps ==
  \/ \E t \in InFlight, out \in Outcomes : QrClearAll(t, out)
  \/ \E t \in InFlight : ToggleAfterClear(t)
  \/ \E t \in InFlight, out \in Outcomes : QrSetActive(t, out)
  \/ \E t \in InFlight : ToggleAfterSet(t)

\* The user of a mounted instance, through the rendered controls.
User(i) ==
  \/ LoadQRCodes(i)
  \/ \E file \in QrFiles \cup {NoFile} : HandleFileSelect(i, file)
  \/ \E name \in NameInputs : SetQrCodeName(i, name)
  \/ \E t \in Times : ClickUpload(i, t)
  \/ \E id \in 1..MaxRows, c \in BOOLEAN : ClickDelete(i, id, c)
  \/ \E id \in 1..MaxRows : ClickToggle(i, id)

\* The upload form, through the rendered controls.
Form(i) ==
  \/ \E file \in QrFiles : HandleFileSelect(i, file)
  \/ \E name \in NameInputs : SetQrCodeName(i, name)
  \/ \E t \in Times : ClickUpload(i, t)

\* The upload form's handlers, called in any state.
FormHandlers(i) ==
  \/ \E file \in QrFiles \cup {NoFile} : HandleFileSelect(i, file)
  \/ \E name \in NameInputs : SetQrCodeName(i, name)
  \/ \E t \in Times : UploadQRCode(i, t)

\* One instance of the component, driven through its rendered controls,
\* over a table that holds rows already.
Init == HeroInit /\ QrInitWith({SeedTable}, {"tab1"}, MaxEvents)
Next == User("tab1") \/ ListSteps \/ UploadSteps \/ DeleteSteps \/ ToggleSteps
Spec == Init /\ [][Next]_vars

\* One instance over an empty table, the user only uploading.
FormInit == HeroInit /\ QrInitWith({{}}, {"tab1"}, MaxFormEvents)
FormNext == Form("tab1") \/ ListSteps \/ UploadSteps
FormSpec == FormInit /\ [][FormNext]_vars

\* The same, with every network call returning in the end and every
\* continuation run by the event loop.
FairFormSpec ==
  FormInit /\ [][FormNext]_vars /\ WF_vars(ListSteps) /\ WF_vars(UploadSteps)

\* The upload form's handlers called directly, as a test of them would.
HandlerInit == HeroInit /\ QrInitWith({{}}, {"tab1"}, MaxEvents)
HandlerNext == FormHandlers("tab1") \/ ListSteps \/ UploadSteps
HandlerSpec == HandlerInit /\ [][HandlerNext]_vars

\* One instance over a table with exactly one active row, one press of a
\* set-as-active button, and nothing else.
OneActiveTables == {{SeedRow(id, id = a) : id \in 1..3} : a \in 1..3}
ToggleInit == HeroInit /\ QrInitWith(OneActiveTables, {"tab1"}, 1)
ToggleNext ==
  \/ \E id \in 1..MaxRows : ClickToggle("tab1", id)
  \/ ListSteps
  \/ ToggleSteps
ToggleSpec == ToggleInit /\ [][ToggleNext]_vars

\* The user of a mounted instance who only refreshes the list and deletes.
ListUser(i) ==
  \/ LoadQRCodes(i)
  \/ \E id \in 1..MaxRows, c \in BOOLEAN : ClickDelete(i, id, c)

\* One instance over a table that holds rows already, the user only
\* refreshing and deleting.
DeleteInit == HeroInit /\ QrInitWith({SeedTable}, {"tab1"}, MaxEvents)
DeleteNext == ListUser("tab1") \/ ListSteps \/ DeleteSteps
DeleteSpec == DeleteInit /\ [][DeleteNext]_vars

\* One instance over a table that holds rows already, the user only pressing
\* delete buttons and answering the prompt.
PromptInit == HeroInit /\ QrInitWith({SeedTable}, {"tab1"}, MaxEvents)
PromptNext ==
  \/ \E id \in 1..MaxRows, c \in BOOLEAN : ClickDelete("tab1", id, c)
  \/ ListSteps
  \/ DeleteSteps
PromptSpec == PromptInit /\ [][PromptNext]_vars

\* One instance over a table with exactly one active row and two presses of
\* set-as-active buttons, the second while the first call is between its
\* two writes.
BetweenWrites ==
  \E t \in InFlight : t.op = "toggle" /\ t.pc \in {"clear_ret", "set_call"}
FirstToggle(i, id) == events = 2 /\ ClickToggle(i, id)
SecondToggle(i, id) == events = 1 /\ BetweenWrites /\ ClickToggle(i, id)
PairInit == HeroInit /\ QrInitWith(OneActiveTables, {"tab1"}, 2)
PairNext ==
  \/ \E id \in 1..MaxRows : FirstToggle("tab1", id)
  \/ \E id \in 1..MaxRows : SecondToggle("tab1", id)
  \/ ListSteps
  \/ ToggleSteps
PairSpec == PairInit /\ [][PairNext]_vars

\* The hero-image handler and one instance of the component over an empty
\* table, side by side: requests that post one file at one time, and the
\* three user events one upload takes.
HeroSteps ==
  \/ \E r \in requests, out \in Outcomes : HeroStorageUpload(r, out)
  \/ \E r \in requests : PostAfterUpload(r)
  \/ \E r \in requests, out \in Outcomes : HeroInsert(r, out)
  \/ \E r \in requests : PostAfterInsert(r)
StoreInit == HeroInit /\ QrInitWith({{}}, {"tab1"}, 3)
StoreNext ==
  \/ POST(UpperFile, TRUE, 1)
  \/ HeroSteps
  \/ HandleFileSelect("tab1", UpperFile)
  \/ SetQrCodeName("tab1", <<" ", "Q", "R", " ">>)
  \/ ClickUpload("tab1", 1)
  \/ ListSteps
  \/ UploadSteps
StoreSpec == StoreInit /\ [][StoreNext]_vars

\* One instance over a table that holds rows already, the user uploading,
\* deleting (the prompt confirmed) and toggling, and the service accepting
\* every call.
AcceptedSteps ==
  \/ \E t \in InFlight : QrSelect(t, "ok")
  \/ \E t \in InFlight : LoadAfterSelect(t)
  \/ \E t \in InFlight : QrStorageUpload(t, "ok")
  \/ \E t \in InFlight : UploadAfterStorage(t)
  \/ \E t \in InFlight : QrInsert(t, "ok")
  \/ \E t \in InFlight : UploadAfterInsert(t)
  \/ \E t \in InFlight : QrDelete(t, "ok")
  \/ \E t \in InFlight : DeleteAfterDelete(t)
  \/ \E t \in InFlight : QrClearAll(t, "ok")
  \/ \E t \in InFlight : ToggleAfterClear(t)
  \/ \E t \in InFlight : QrSetActive(t, "ok")
  \/ \E t \in InFlight : ToggleAfterSet(t)
AcceptedInit == HeroInit /\ QrInitWith({SeedTable}, {"tab1"}, MaxEvents)
AcceptedNext ==
  \/ Form("tab1")
  \/ \E id \in 1..MaxRows : ClickDelete("tab1", id, TRUE)
  \/ \E id \in 1..MaxRows : ClickToggle("tab1", id)
  \/ AcceptedSteps
AcceptedSpec == AcceptedInit /\ [][AcceptedNext]_vars

\* The hero-image handler on its own.
HeroSpecInit == HeroInit /\ QrInitWith({{}}, {}, 0)
HeroSpec == HeroSpecInit /\ [][HeroNext]_vars

\* ================================================================ claims
\* The continuation of task t ran in this step.
Resumed(t) == CopiesIn(t, tasks') < CopiesIn(t, tasks)
\* The service answered task t's call in this step with `out`, which moved
\* it to pc.
Answered(t, pc, out) ==
  LET u == [t EXCEPT !.pc = pc, !.res = out]
  IN  Resumed(t) /\ CopiesIn(u, tasks') > CopiesIn(u, tasks)

RejectedFiles == {f \in QrFiles : f.size > 5 * 1024 * 1024 \/ ~StartsWith(f.type, ImagePrefix)}

\* C1: in every reachable state of the qr_codes table at most one row has
\* is_active = true.
C1_AtMostOneActive == Cardinality(Active(qr_codes)) <= 1

\* C2: with row A the only active row and one toggleActive(B), B # A, as the
\* only action, once both of its writes have returned and the second was
\* accepted (the handler is about to report success), exactly row B is
\* active.
C2_ToggleLeavesOnlyTargetActive ==
  \A t \in InFlight :
    (t.op = "toggle" /\ t.pc = "set_ret" /\ t.res = "ok")
      => Ids(Active(qr_codes)) = {t.id}

\* C3: starting from an empty table and an empty list, with uploads as the
\* only actions of one instance, the first inserted row (id 1) is active and
\* every later row is not.
C3_OnlyFirstUploadActive ==
  \A r \in qr_codes : r.is_active <=> r.id = 1

\* C4: a request whose form has no file is answered 400 with an error body,
\* and the handler calls neither storage nor the database for it.
C4_MissingFileIs400 ==
  \A r \in requests :
    (r.readable /\ r.file = NoFile)
      => /\ r.pc = "done" /\ r.status = 400 /\ r.error # ""
         /\ r.calls = <<>>
         /\ \A row \in hero_images : row.by # r.rid
C4_Witness ==
  \E r \in requests : r.readable /\ r.file = NoFile /\ r.status = 400

\* C5: a request whose storage upload is rejected is answered 500 and no
\* insert is made for it.
C5_UploadFailureIs500 ==
  \A r \in requests :
    r.upRes \in {"error", "throw"}
      => /\ r.pc \in {"upload_ret", "done"}
         /\ r.pc = "done" => (r.status = 500 /\ r.error # "")
         /\ \A k \in 1..Len(r.calls) : r.calls[k] # "db.insert"
         /\ \A row \in hero_images : row.by # r.rid
C5_Witness ==
  \E r \in requests : r.upRes \in {"error", "throw"} /\ r.pc = "done"

\* C6: a request whose upload succeeded and whose insert is rejected is
\* answered 500 with an error body, adds no row, and its object stays in the
\* bucket: the handler made no call after the insert.
C6_InsertFailureKeepsObject ==
  \A r \in requests :
    (r.upRes = "ok" /\ r.dbRes \in {"error", "throw"} /\ r.pc = "done")
      => /\ r.status = 500 /\ r.error # ""
         /\ \A row \in hero_images : row.by # r.rid
         /\ r.fileName \in heroBucket
         /\ r.calls = <<"storage.upload", "db.insert">>
C6_Witness ==
  \E r \in requests : r.upRes = "ok" /\ r.dbRes \in {"error", "throw"} /\ r.pc = "done"

\* C7: when the service accepts the delete of deleteQRCode(id), the table
\* loses exactly the row with that id and keeps every other row as it was;
\* and the list fetch issued after it, when it succeeds, does not hold the id.
C7_DeleteRemovesExactlyThatRow ==
  [][ /\ \A t \in InFlight :
           (t.op = "delete" /\ Answered(t, "delete_ret", "ok"))
             => /\ \A r \in qr_codes : r.id # t.id => r \in qr_codes'
                /\ \A r \in qr_codes' : r \in qr_codes /\ r.id # t.id
      /\ \A u \in BagToSet(tasks') :
           (u.op = "load" /\ u.by = "delete" /\ u.res = "ok")
             => u.id \notin Ids(Range(u.data))
    ]_vars
C7_Witness ==
  /\ Cardinality(qr_codes) = 2
  /\ \E u \in InFlight : u.op = "load" /\ u.by = "delete" /\ u.res = "ok"
                         /\ Len(u.data) = 2

\* C8: in every state, selecting a file that is too large or not an image
\* leaves selectedFile unset, sets an error message and calls nothing.
C8_RejectedFileLeavesSelectionUnset ==
  [][ \A f \in RejectedFiles :
        HandleFileSelect("tab1", f)
          => /\ selectedFile'["tab1"] = NoFile
             /\ error'["tab1"] # ""
             /\ tasks' = tasks
    ]_vars

\* C9: uploadQRCode called with no file selected or a name that is blank
\* after trimming sets an error message, starts no call, leaves uploading as
\* it was (false, unless an earlier upload is still running), and leaves the
\* list, the selection and the name unchanged.
C9_RefusedUploadDoesNothing ==
  [][ \A t \in Times :
        ( /\ UploadQRCode("tab1", t)
          /\ \/ selectedFile["tab1"] = NoFile
             \/ \A k \in 1..Len(qrCodeName["tab1"]) :
                  qrCodeName["tab1"][k] \in WhiteSpace )
          => /\ error'["tab1"] = "Please select a file and enter a name"
             /\ tasks' = tasks
             /\ UNCHANGED <<qrBucket, qr_codes, uploading, qrCodes,
                            selectedFile, qrCodeName, loading, success>>
    ]_vars
C9_Witness ==
  /\ error["tab1"] = "Please select a file and enter a name"
  /\ selectedFile["tab1"] # NoFile
  /\ qrCodeName["tab1"] = <<" ", "\t">>

\* C10: when uploadQRCode resumes after a rejected storage upload or a
\* rejected insert, it ends there: no further call (no insert, no list fetch,
\* no delete of the stored object), an error message set, and the success
\* message, the selection and the name as they were.
C10_FailedUploadAborts ==
  [][ \A t \in InFlight :
        ( /\ t.op = "upload"
          /\ t.pc \in {"storage_ret", "insert_ret"}
          /\ t.res \in {"error", "throw"}
          /\ Resumed(t) )
          => /\ tasks' = DelTask(tasks, t)
             /\ error'[t.tab] \in {"Failed to upload image",
                                   "Failed to save QR code",
                                   "Failed to upload QR code"}
             /\ uploading'[t.tab] = FALSE
             /\ UNCHANGED <<qrBucket, qr_codes, success, selectedFile,
                            qrCodeName, qrCodes, loading>>
    ]_vars
C10_Witness ==
  /\ error["tab1"] = "Failed to save QR code"
  /\ qrBucket # {}
  /\ qr_codes = {}
  /\ selectedFile["tab1"] # NoFile
  /\ uploading["tab1"] = FALSE

\* C11: when loadQRCodes resumes after a select that returned an error or
\* threw, it sets the error message and leaves the locally held list as it
\* was (and loading false).
C11_FailedLoadKeepsList ==
  [][ \A t \in InFlight :
        ( /\ t.op = "load" /\ t.pc = "select_ret"
          /\ t.res \in {"error", "throw"}
          /\ Resumed(t) )
          => /\ qrCodes' = qrCodes
             /\ error'[t.tab] = "Failed to load QR codes"
             /\ loading'[t.tab] = FALSE
             /\ tasks' = DelTask(tasks, t)
    ]_vars
C11_Witness ==
  /\ error["tab1"] = "Failed to load QR codes"
  /\ Len(qrCodes["tab1"]) = Cardinality(SeedTable)
  /\ ~loading["tab1"]

\* C12: with one toggleActive as the only action, when its first write took
\* effect and its second write returned an error or threw, the handler sets
\* the error message, sets no success message, issues no list fetch, and the
\* table stays as the first write left it: no row active.
C12_FailedSetLeavesNoneActive ==
  [][ \A t \in InFlight :
        ( /\ t.op = "toggle" /\ t.pc = "set_ret"
          /\ t.res1 = "ok" /\ t.res \in {"error", "throw"}
          /\ Resumed(t) )
          => /\ tasks' = DelTask(tasks, t)
             /\ error'[t.tab] = "Failed to update QR code status"
             /\ success'[t.tab] = ""
             /\ loading' = loading
             /\ qr_codes' = qr_codes
             /\ Active(qr_codes') = {}
    ]_vars
C12_Witness ==
  /\ error["tab1"] = "Failed to update QR code status"
  /\ success["tab1"] = ""
  /\ Active(qr_codes) = {}
  /\ tasks = EmptyBag

\* The last dot-segment of each posted file's name, in lower case.
ExpectedExt(file) ==
  CASE file = PngFile   -> <<"p", "n", "g">>
    [] file = UpperFile -> <<"j", "p", "g">>
    [] file = TextFile  -> <<"n", "o", "t", "e">>

\* C13: a request with a file whose upload and insert both succeeded is
\* answered with the success payload, and the row inserted for it has
\* file_name "hero-<timestamp>." followed by the lower-cased last
\* dot-segment of the file's name.
C13_SuccessNamesLowerCasedExtension ==
  \A r \in requests :
    (r.file # NoFile /\ r.upRes = "ok" /\ r.dbRes = "ok" /\ r.pc = "done")
      => /\ r.status = 200 /\ r.error = ""
         /\ \E row \in hero_images :
              /\ row.by = r.rid /\ row.id = r.image
              /\ \E t \in Times :
                   row.file_name = <<"hero-", ToString(t), ".">> \o ExpectedExt(r.file)
C13_Witness ==
  \E r \in requests : r.file = UpperFile /\ r.pc = "done" /\ r.status = 200

\* C14: when the prompt of deleteQRCode is declined, no call is started (no
\* delete, no list fetch) and neither the table nor any state of the
\* component changes.
C14_DeclinedDeleteDoesNothing ==
  [][ \A id \in 1..MaxRows :
        ClickDelete("tab1", id, FALSE)
          => /\ tasks' = tasks
             /\ UNCHANGED <<qrBucket, qr_codes, nextId, qrCodes, loading,
                            uploading, selectedFile, qrCodeName, error, success>>
    ]_vars
\* Under PromptSpec an event spent with nothing else changed is a declined
\* prompt.
C14_Witness ==
  /\ events < MaxEvents
  /\ tasks = EmptyBag
  /\ qr_codes = SeedTable
  /\ error["tab1"] = "" /\ success["tab1"] = ""
  /\ Len(qrCodes["tab1"]) = Cardinality(SeedTable)

\* The toggleActive calls whose two writes have both been accepted.
WrittenToggles ==
  {t \in InFlight : t.op = "toggle" /\ t.pc = "set_ret"
                                     /\ t.res1 = "ok" /\ t.res = "ok"}
\* Both calls have made both of their writes, and every write was accepted.
BothWritten ==
  BagCardinality([t \in WrittenToggles |-> tasks[t]]) = 2

\* C15: an accepted activate-target write makes its target active and
\* deactivates no row; so two calls with distinct targets, the second
\* started between the first's writes, can end with both targets active
\* (the witness).
C15_SetWriteDeactivatesNothing ==
  [][ \A t \in InFlight :
        (t.op = "toggle" /\ t.pc = "set_call" /\ Answered(t, "set_ret", "ok"))
          => Ids(Active(qr_codes')) = Ids(Active(qr_codes)) \cup {t.id}
    ]_vars
C15_Witness ==
  /\ BothWritten
  /\ Cardinality(WrittenToggles) = 2
  /\ Ids(Active(qr_codes)) = {t.id : t \in WrittenToggles}

\* C16 as claimed: two calls, the second started between the first's
\* writes, every write accepted, end with no row active.
C16_TwoTogglesLeaveNoneActive ==
  BothWritten => Active(qr_codes) = {}

\* C16 as amended: two such calls end with at least one row active, and
\* every active row is a target of one of them.
C16_TwoTogglesLeaveATargetActive ==
  BothWritten =>
    /\ Active(qr_codes) # {}
    /\ Ids(Active(qr_codes)) \subseteq {t.id : t \in WrittenToggles}
C16_Witness ==
  /\ BothWritten
  /\ Cardinality(Active(qr_codes)) = 1

\* C17: with one toggleActive as the only action, a returned error of the
\* first write sets no error message and the handler goes on to the second
\* write; and whenever the second write was accepted the handler sets the
\* success message and starts a list fetch, whatever the first returned.
C17_FirstWriteErrorIsDropped ==
  [][ \A t \in InFlight :
        (t.op = "toggle" /\ Resumed(t))
          => /\ (t.pc = "clear_ret" /\ t.res = "error")
                  => /\ error' = error
                     /\ [t EXCEPT !.pc = "set_call", !.res1 = "error",
                                   !.res = "none"] \in BagToSet(tasks')
             /\ (t.pc = "set_ret" /\ t.res = "ok")
                  => /\ success'[t.tab] = "QR code status updated!"
                     /\ error' = error
                     /\ loading'[t.tab]
                     /\ LoadTask(t.tab, "toggle", t.id) \in BagToSet(tasks')
    ]_vars
\* Two rows active after a reported success: the first write was refused.
C17_Witness ==
  /\ success["tab1"] = "QR code status updated!"
  /\ error["tab1"] = ""
  /\ Cardinality(Active(qr_codes)) = 2

\* C18: a row is inserted only after the storage upload of the object its
\* URL names was accepted in the same call, with the same key: every call
\* about to insert has its object stored, and in every reachable state each
\* hero_images row and each qr_codes row names an object of its bucket.
C18_NoRowWithoutObject ==
  /\ \A r \in requests :
       r.pc = "insert_call" => (r.upRes = "ok" /\ r.fileName \in heroBucket)
  /\ \A t \in InFlight :
       (t.op = "upload" /\ t.pc = "insert_call") => t.key \in qrBucket
  /\ \A row \in hero_images :
       /\ row.file_url = PublicUrl("hero-images", row.file_name)
       /\ row.file_name \in heroBucket
       /\ \E r \in requests : r.rid = row.by /\ r.fileName = row.file_name
                                              /\ r.upRes = "ok"
  /\ \A row \in qr_codes :
       /\ row.image_url.bucket = "qr-codes"
       /\ row.image_url.key \in qrBucket
\* A row written by each handler.
C18_Witness ==
  /\ \E row \in hero_images : row.file_name = <<"hero-", "1", ".", "j", "p", "g">>
  /\ \E row \in qr_codes : row.image_url.key = <<"1", ".", "J", "P", "G">>

\* C19: a flag is true only while a call that will reset it is in flight,
\* and, every network call returning in the end, loading and uploading
\* each become false again whenever they are true.
C19_BusyFlagsAreReset ==
  /\ [](\A i \in Tabs :
          /\ loading[i] => \E t \in InFlight : t.tab = i /\ t.op \in {"load", "upload"}
          /\ uploading[i] => \E t \in InFlight : t.tab = i /\ t.op = "upload")
  /\ (loading["tab1"] ~> ~loading["tab1"])
  /\ (uploading["tab1"] ~> ~uploading["tab1"])
C19_Witness ==
  /\ error["tab1"] = "Failed to upload QR code"
  /\ ~uploading["tab1"]
  /\ ~loading["tab1"]
  /\ tasks = EmptyBag

\* C20: with one instance the only writer and every call accepted, once no
\* call is in flight the locally held list is the table's rows, newest
\* first.
C20_ListEqualsTableWhenIdle ==
  tasks = EmptyBag => qrCodes["tab1"] = SortDesc(qr_codes)

=============================================================================
